---- MODULE Spec2Model ----
(***************************************************************************)
(* Model of Pipeline/featurize_realtime.py (PinkSlipper): the featurizing  *)
(* pass over the scraped press releases held in MongoDB.                   *)
(*                                                                         *)
(* Python strings are sequences of one-character strings, a dict is a      *)
(* function whose DOMAIN is its key set, a list is a sequence, and None is *)
(* the value None below.  An uncaught exception ends the process: the      *)
(* pass moves to pc = "error" and takes no further step.                   *)
(***************************************************************************)
EXTENDS Integers, Sequences, FiniteSets, TLC

VARIABLES
    \* feature_engineering, called on its own
    fe_pc, fe_data, fe_text, fe_location, fe_org, fe_d,
    \* get_labels, called on its own: the headline, the label dict being
    \* built, and what the two taggers returned
    gl_pc, gl_title, gl_label, gl_pos_tpls, gl_ner_tpls,
    \* featurize_page_soup, called on its own: the parsed listing page, the
    \* link, and the dict returned
    ps_pc, ps_soup, ps_link, ps_out,
    \* the pass of __main__: the two collections, the cursor, the loop's
    \* locals and its position
    prnewswire, pr_realtime, cursor, doc, doc_features, count, tot, pc,
    \* which run of the program this is ("first" or "second")
    run,
    \* history of the current run: the documents the query returned, those
    \* the loop took, the update_one calls per document, the inserts; and
    \* what feature_engineering derived for each document
    snapshot, visited, marks, inserted, engineered

fe_vars == <<fe_pc, fe_data, fe_text, fe_location, fe_org, fe_d>>
gl_vars == <<gl_pc, gl_title, gl_label, gl_pos_tpls, gl_ner_tpls>>

ps_vars == <<ps_pc, ps_soup, ps_link, ps_out>>

pl_vars == <<prnewswire, pr_realtime, cursor, doc, doc_features, count, tot,
             pc, run, snapshot, visited, marks, inserted, engineered>>

vars == <<fe_vars, gl_vars, ps_vars, pl_vars>>

-----------------------------------------------------------------------------
(* Bounds of the model *)

\* most pieces a generated body or meta description is concatenated from
MaxPieces == 3

\* most nodes removed or unwrapped from the listing page to get a variant
MaxEdits == 2

\* the documents the scraper stored
NumDocs == 2

-----------------------------------------------------------------------------
(* Python values *)

\* Python's None, where a string is expected (no string holds this element)
None == <<"<None>">>

\* the empty dict {}
EmptyDict == <<>>

\* bool(v) of a string or None: None and '' are false
Truthy(v) == v # None /\ v # <<>>

\* characters str.strip() and str.split() treat as whitespace
Whitespace == {" ", "\n"}

RECURSIVE LStrip(_)
\* str.lstrip()
LStrip(s) == IF s # <<>> /\ Head(s) \in Whitespace THEN LStrip(Tail(s)) ELSE s

RECURSIVE RStrip(_)
\* str.rstrip()
RStrip(s) ==
    IF s # <<>> /\ s[Len(s)] \in Whitespace
    THEN RStrip(SubSeq(s, 1, Len(s) - 1))
    ELSE s

\* str.strip()
Strip(s) == RStrip(LStrip(s))

\* the 0-based indices at which sub occurs in s
Occurrences(s, sub) ==
    {i \in 0..(Len(s) - Len(sub)) : SubSeq(s, i + 1, i + Len(sub)) = sub}

\* s.find(sub): the lowest index of sub in s, -1 when there is none
Find(s, sub) ==
    IF Occurrences(s, sub) = {}
    THEN -1
    ELSE CHOOSE i \in Occurrences(s, sub) : \A j \in Occurrences(s, sub) : i <= j

\* Split1 gone wrong: the split is made at the last sep, as rsplit does
Split1_AtLast(s, sep) ==
    IF Occurrences(s, sep) = {}
    THEN <<s>>
    ELSE LET i == CHOOSE k \in Occurrences(s, sep) :
                     \A j \in Occurrences(s, sep) : k >= j
         IN <<SubSeq(s, 1, i), SubSeq(s, i + Len(sep) + 1, Len(s))>>

\* s.split(sep, 1) for a non-empty sep: at most one split, at the first sep
Split1(s, sep) ==
    IF Find(s, sep) = -1
    THEN <<s>>
    ELSE <<SubSeq(s, 1, Find(s, sep)),
           SubSeq(s, Find(s, sep) + Len(sep) + 1, Len(s))>>

\* Prefix gone wrong: the slice is left out and the whole string used
Prefix_Uncut(s, n) == s

\* s[:n]
Prefix(s, n) == SubSeq(s, 1, IF Len(s) < n THEN Len(s) ELSE n)

RECURSIVE Concat(_)
\* the concatenation of a sequence of strings
Concat(ss) == IF ss = <<>> THEN <<>> ELSE Head(ss) \o Concat(Tail(ss))

\* the strings made of at most MaxPieces pieces
Built(pieces) ==
    UNION {{Concat(p) : p \in [1..k -> pieces]} : k \in 0..MaxPieces}

-----------------------------------------------------------------------------
(* feature_engineering *)

\* the wire-service dateline separator '/ -- '
Delim == <<"/", " ", "-", "-", " ">>

\* date[:3] keeps this many characters
MonthLen == 3

\* text, lines 68-71: body.split('/ -- ', 1)[1].strip(); a missing key or a
\* one-element split raises inside the try, and text is None
FE_text(data) ==
    IF "body" \notin DOMAIN data THEN None
    ELSE IF Len(Split1(data.body, Delim)) < 2 THEN None
    ELSE Strip(Split1(data.body, Delim)[2])

\* location, lines 72-79; a missing key raises KeyError and str.split with
\* an empty separator raises ValueError, both inside the try: None
FE_location(data) ==
    IF ~({"date", "meta_desc"} \subseteq DOMAIN data) THEN None
    ELSE LET month == Prefix(data.date, MonthLen) IN
         IF Find(data.meta_desc, month) > -1
         THEN IF month = <<>> THEN None
              ELSE Strip(Split1(data.meta_desc, month)[1])
         ELSE None

\* org, lines 80-83: authors[0]; a missing key or an empty list: None
FE_org(data) ==
    IF "authors" \notin DOMAIN data THEN None
    ELSE IF data.authors = <<>> THEN None
    ELSE data.authors[1]

\* AllPresent gone wrong: a test against None only
AllPresent_NotNone(text, org, location) ==
    text # None /\ org # None /\ location # None

\* the guard of line 84
AllPresent(text, org, location) == Truthy(text) /\ Truthy(org) /\ Truthy(location)

\* lines 84-90: all three or the empty dict
feature_engineering(data) ==
    IF AllPresent(FE_text(data), FE_org(data), FE_location(data))
    THEN [text |-> FE_text(data),
          location |-> FE_location(data),
          org |-> FE_org(data)]
    ELSE EmptyDict

-----------------------------------------------------------------------------
(* feature_engineering called on generated records *)

BodyPieces == {Delim, <<"A">>, <<" ">>, <<"/", " ", "-">>}
MetaPieces == {<<"J", "a", "n">>, <<"J">>, <<" ">>, <<"N", "Y", ",">>}

Bodies == Built(BodyPieces)
Metas == Built(MetaPieces)
Dates == {<<>>, <<"J">>, <<"J", "a">>, <<"J", "a", "n">>,
          <<"J", "a", "n", " ", "5">>, <<"F", "e", "b", " ", "1">>}
AuthorLists == {<<>>, << <<"A", "c", "m", "e">> >>, << <<>>, <<"A">> >>}

\* a dict with the keys of ks, each bound to its value in full
Restrict(full, ks) == [k \in ks |-> full[k]]

FE_Keys == {"body", "date", "meta_desc", "authors"}

\* the records feature_engineering is called on: every body with a few dates
\* and descriptions, every date and description with a few bodies, and
\* records that lack a key
FE_Inputs ==
    LET someBodies == {<<>>, Delim, Delim \o <<"A">>, <<"A">>}
        someDates == {<<>>, <<"J", "a", "n", " ", "5">>}
        someMetas == {<<>>, <<"N", "Y", ",", " ", "J", "a", "n">>}
        full == {[body |-> b, date |-> d, meta_desc |-> m, authors |-> a] :
                    b \in Bodies, d \in someDates,
                    m \in someMetas, a \in AuthorLists}
                \cup
                {[body |-> b, date |-> d, meta_desc |-> m, authors |-> a] :
                    b \in someBodies, d \in Dates,
                    m \in Metas, a \in AuthorLists}
        lacking == {Restrict(f, FE_Keys \ {k}) :
                       f \in {[body |-> b, date |-> d, meta_desc |-> m,
                               authors |-> << <<"A">> >>] :
                                 b \in someBodies, d \in someDates,
                                 m \in someMetas},
                       k \in FE_Keys}
    IN full \cup lacking

\* feature_engineering is not running
FE_Idle ==
    /\ fe_pc = "idle"
    /\ fe_data = EmptyDict
    /\ fe_text = None
    /\ fe_location = None
    /\ fe_org = None
    /\ fe_d = EmptyDict

FE_Init ==
    /\ fe_pc = "call"
    /\ fe_data \in FE_Inputs
    /\ fe_text = None
    /\ fe_location = None
    /\ fe_org = None
    /\ fe_d = EmptyDict

\* one call of feature_engineering(fe_data)
FE_Call ==
    /\ fe_pc = "call"
    /\ fe_text' = FE_text(fe_data)
    /\ fe_location' = FE_location(fe_data)
    /\ fe_org' = FE_org(fe_data)
    /\ fe_d' = feature_engineering(fe_data)
    /\ fe_pc' = "returned"
    /\ UNCHANGED fe_data
    /\ UNCHANGED <<gl_vars, ps_vars, pl_vars>>

-----------------------------------------------------------------------------
(* get_labels, get_POS, get_ner *)

RECURSIVE Tokens(_)
\* str.split() with no separator: the maximal runs of non-whitespace
Tokens(s) ==
    LET t == LStrip(s)
        ends == {i \in 1..Len(t) : t[i] \in Whitespace}
        stop == IF ends = {} THEN Len(t) + 1
                ELSE CHOOSE i \in ends : \A j \in ends : i <= j
    IN IF t = <<>> THEN <<>>
       ELSE <<SubSeq(t, 1, stop - 1)>> \o Tokens(SubSeq(t, stop, Len(t)))

Digits == <<"0", "1", "2", "3", "4", "5", "6", "7", "8", "9">>

RECURSIVE Str(_)
\* str(i) of a natural number: its decimal digits
Str(i) ==
    IF i < 10 THEN <<Digits[i + 1]>>
    ELSE Str(i \div 10) \o <<Digits[(i % 10) + 1]>>

RECURSIVE Gcd(_, _)
Gcd(a, b) == IF b = 0 THEN a ELSE Gcd(b, a % b)

\* FloatDiv gone wrong: float() left out, Python 2's integer division
FloatDiv_Floor(i, n) == <<i \div n, 1>>

\* i / float(n), n > 0: the quotient as a fraction in lowest terms (two
\* quotients are the same float when they are the same fraction)
FloatDiv(i, n) == <<i \div Gcd(i, n), n \div Gcd(i, n)>>

LowerCase == {"a", "o", "x", "y"}
UpperCase == {"J", "V", "P"}

\* str.islower(): a cased character, and no uppercase one
IsLower(w) ==
    /\ \E i \in 1..Len(w) : w[i] \in LowerCase
    /\ \A i \in 1..Len(w) : w[i] \notin UpperCase

\* str.isupper(): a cased character, and no lowercase one
IsUpper(w) ==
    /\ \E i \in 1..Len(w) : w[i] \in UpperCase
    /\ \A i \in 1..Len(w) : w[i] \notin LowerCase

\* lines 170-176: one entry per token, keyed by str(i)
BuildLabel(title) ==
    LET words == Tokens(title)
        num_words == Len(words)
    IN [k \in {Str(i) : i \in 0..(num_words - 1)} |->
          LET i == CHOOSE j \in 0..(num_words - 1) : Str(j) = k IN
          [word |-> words[i + 1],
           all_lower |-> IsLower(words[i + 1]),
           all_upper |-> IsUpper(words[i + 1]),
           word_pct |-> FloatDiv(i, num_words)]]

\* label[str(i)] of lines 141 and 155 raises KeyError for some tag of tpls
TagRaises(label, tpls) == \E i \in 0..(Len(tpls) - 1) : Str(i) \notin DOMAIN label

\* lines 140-141 and 154-155: label[str(i)][field] = tag for i, tag in
\* enumerate(tpls); entries past the end of tpls are left as they are
SetTags(label, tpls, field) ==
    [k \in DOMAIN label |->
        IF \E i \in 0..(Len(tpls) - 1) : Str(i) = k
        THEN LET i == CHOOSE j \in 0..(Len(tpls) - 1) : Str(j) = k
             IN (field :> tpls[i + 1]) @@ label[k]
        ELSE label[k]]

\* get_POS, lines 139-142, on the tags the POS tagger returned
get_POS(label, pos_tpls) == SetTags(label, pos_tpls, "POS")

\* get_ner, lines 153-156, on the tags the NER tagger returned
get_ner(label, ner_tpls) == SetTags(label, ner_tpls, "ner")

POSTags == {"NNP", "VBN"}
NERTags == {"PERSON", "O"}

\* what a tagger may return for n tokens: a tag per token in order, or a
\* sequence one shorter or one longer
TagSeqs(tags, n) ==
    UNION {[1..m -> tags] : m \in {k \in (n - 1)..(n + 1) : k >= 0}}

TitlePieces == {<<"J", "o", " ">>, <<"V", "P">>, <<" ">>, <<"x", "\n", "y">>}
Titles == Built(TitlePieces)

\* get_labels is not running
GL_Idle ==
    /\ gl_pc = "idle"
    /\ gl_title = <<>>
    /\ gl_label = EmptyDict
    /\ gl_pos_tpls = <<>>
    /\ gl_ner_tpls = <<>>

GL_Init ==
    /\ gl_pc = "call"
    /\ gl_title \in Titles
    /\ gl_label = EmptyDict
    /\ gl_pos_tpls = <<>>
    /\ gl_ner_tpls = <<>>

\* lines 170-176
GL_Build ==
    /\ gl_pc = "call"
    /\ gl_label' = BuildLabel(gl_title)
    /\ gl_pc' = "get_POS"
    /\ UNCHANGED <<gl_title, gl_pos_tpls, gl_ner_tpls>>
    /\ UNCHANGED <<fe_vars, ps_vars, pl_vars>>

\* line 177: the POS tagger answers, get_POS merges or raises KeyError
GL_get_POS ==
    /\ gl_pc = "get_POS"
    /\ \E tpls \in TagSeqs(POSTags, Len(Tokens(gl_title))) :
        /\ gl_pos_tpls' = tpls
        /\ IF TagRaises(gl_label, tpls)
           THEN gl_pc' = "error" /\ gl_label' = EmptyDict
           ELSE gl_pc' = "get_ner" /\ gl_label' = get_POS(gl_label, tpls)
    /\ UNCHANGED <<gl_title, gl_ner_tpls>>
    /\ UNCHANGED <<fe_vars, ps_vars, pl_vars>>

\* lines 178-179: the NER tagger answers, get_ner merges or raises KeyError
GL_get_ner ==
    /\ gl_pc = "get_ner"
    /\ \E tpls \in TagSeqs(NERTags, Len(Tokens(gl_title))) :
        /\ gl_ner_tpls' = tpls
        /\ IF TagRaises(gl_label, tpls)
           THEN gl_pc' = "error" /\ gl_label' = EmptyDict
           ELSE gl_pc' = "returned" /\ gl_label' = get_ner(gl_label, tpls)
    /\ UNCHANGED <<gl_title, gl_pos_tpls>>
    /\ UNCHANGED <<fe_vars, ps_vars, pl_vars>>

-----------------------------------------------------------------------------
(* featurize_page_soup *)

(* BeautifulSoup(soup, 'html.parser') is the sequence of the page's tags in *)
(* document order.  A tag is a record: its name, its classes, its href and  *)
(* src attributes (None when absent), the text it holds itself, and the     *)
(* index of its parent tag, 0 for the BeautifulSoup object.  A tag is named *)
(* by its index, the BeautifulSoup object by 0.                             *)

\* the BeautifulSoup object itself
Document == 0
\* Python's None where a tag is expected
NoTag == -1
\* an attribute access on None, or a missing key, has raised
Raised == -2
\* the same for an expression that yields a string
RaisedStr == <<"<raised>">>

RECURSIVE IsAncestor(_, _, _)
\* tag a, or the document, is above tag j
IsAncestor(soup, a, j) ==
    \/ soup[j].parent = a
    \/ soup[j].parent # Document /\ IsAncestor(soup, a, soup[j].parent)

\* the least element of a non-empty set of indices
Least(S) == CHOOSE i \in S : \A j \in S : i <= j
\* the greatest element of a non-empty set of indices
Greatest(S) == CHOOSE i \in S : \A j \in S : i >= j

\* the tags with class c (class_=c)
WithClass(soup, c) == {j \in 1..Len(soup) : c \in soup[j].cls}
\* the tags whose href attribute is link (href=link)
WithHref(soup, link) == {j \in 1..Len(soup) : soup[j].href = link}
\* the tags named n
Named(soup, n) == {j \in 1..Len(soup) : soup[j].name = n}

\* x.find(...): the first tag below x, in document order, among those the
\* arguments of find match
FindFirst(soup, x, matching) ==
    IF x < 0 THEN Raised
    ELSE LET hits == {j \in matching : IsAncestor(soup, x, j)}
         IN IF hits = {} THEN NoTag ELSE Least(hits)

\* x.find_parent(); the parent of a top-level tag is the BeautifulSoup
\* object, which has none
find_parent(soup, x) ==
    IF x < 0 THEN Raised
    ELSE IF x = Document THEN NoTag
    ELSE soup[x].parent

\* x.find_previous_sibling(): the nearest tag before x with x's parent
find_previous_sibling(soup, x) ==
    IF x < 0 THEN Raised
    ELSE IF x = Document THEN NoTag
    ELSE LET sibs == {j \in 1..(x - 1) : soup[j].parent = soup[x].parent}
         IN IF sibs = {} THEN NoTag ELSE Greatest(sibs)

\* x.find_next_sibling(): the nearest tag after x with x's parent
find_next_sibling(soup, x) ==
    IF x < 0 THEN Raised
    ELSE IF x = Document THEN NoTag
    ELSE LET sibs == {j \in (x + 1)..Len(soup) : soup[j].parent = soup[x].parent}
         IN IF sibs = {} THEN NoTag ELSE Least(sibs)

RECURSIVE TextFrom(_, _, _)
\* the text of x and of the tags below it, from index j on
TextFrom(soup, x, j) ==
    IF j > Len(soup) THEN <<>>
    ELSE (IF j = x \/ IsAncestor(soup, x, j) THEN soup[j].string ELSE <<>>)
         \o TextFrom(soup, x, j + 1)

\* x.text
TextOf(soup, x) == IF x < 0 THEN RaisedStr ELSE TextFrom(soup, x, 1)

\* x['src']
SrcOf(soup, x) ==
    IF x < 0 THEN RaisedStr
    ELSE IF soup[x].src = None THEN RaisedStr
    ELSE soup[x].src

\* try: v = <string>.strip()  except: v = ''
TryStrip(v) == IF v = RaisedStr THEN <<>> ELSE Strip(v)

\* try: v = <string>  except: v = ''
TryGet(v) == IF v = RaisedStr THEN <<>> ELSE v

\* soup.find(class_='news-release', href=link)
NewsRelease(soup, link) ==
    FindFirst(soup, Document,
              WithClass(soup, "news-release") \cap WithHref(soup, link))

\* lines 32-36, outside any try: the tag holding the date and the time
MetaBlock(soup, link) ==
    find_previous_sibling(soup,
        find_parent(soup, find_parent(soup,
            find_parent(soup, NewsRelease(soup, link)))))

\* lines 37-40
PS_date(soup, link) ==
    TryStrip(TextOf(soup, FindFirst(soup, MetaBlock(soup, link),
                                    WithClass(soup, "date"))))

\* lines 41-44
PS_time(soup, link) ==
    TryStrip(TextOf(soup, FindFirst(soup, MetaBlock(soup, link),
                                    WithClass(soup, "time"))))

\* lines 45-48: soup.find(href=link).img['src']
PS_img(soup, link) ==
    TryGet(SrcOf(soup,
        FindFirst(soup, FindFirst(soup, Document, WithHref(soup, link)),
                  Named(soup, "img"))))

\* lines 49-53
PS_summary(soup, link) ==
    TryStrip(TextOf(soup,
        find_next_sibling(soup, find_parent(soup, NewsRelease(soup, link)))))

\* featurize_page_soup raises: the chain of lines 32-36 met None
PS_Raises(soup, link) == MetaBlock(soup, link) = Raised

\* lines 54-58
featurize_page_soup(soup, link) ==
    [date |-> PS_date(soup, link),
     time |-> PS_time(soup, link),
     summary |-> PS_summary(soup, link),
     img |-> PS_img(soup, link)]

-----------------------------------------------------------------------------
(* featurize_page_soup called on generated listing pages *)

Tag(name, cls, href, src, string, parent) ==
    [name |-> name, cls |-> cls, href |-> href, src |-> src,
     string |-> string, parent |-> parent]

\* the links of two articles
Link1 == <<"L">>
Link2 == <<"M">>

\* a listing page: the thumbnail link of article 1, its date and time block,
\* its three nested containers with the headline link and the summary, and
\* the headline link of article 2 at the top level
BasePage ==
    << Tag("a",    {},               Link1, None,     <<>>,               0),
       Tag("img",  {},               None,  <<"u">>,  <<>>,               1),
       Tag("div",  {"meta"},         None,  None,     <<>>,               0),
       Tag("span", {"date"},         None,  None,     <<" ", "J", "a", "n", " ", "5">>, 3),
       Tag("span", {"time"},         None,  None,     <<"8", " ">>,       3),
       Tag("div",  {"row"},          None,  None,     <<>>,               0),
       Tag("div",  {"col"},          None,  None,     <<>>,               6),
       Tag("h3",   {},               None,  None,     <<>>,               7),
       Tag("a",    {"news-release"}, Link1, None,     <<"T">>,            8),
       Tag("p",    {},               None,  None,     <<"S", " ">>,       7),
       Tag("a",    {"news-release"}, Link2, None,     <<"U">>,            0) >>

\* the page without the tags of R (each given with all tags below it)
Without(soup, R) ==
    LET keep == {i \in 1..Len(soup) : i \notin R}
        new(i) == IF i = 0 THEN 0 ELSE Cardinality({k \in keep : k <= i})
        old(n) == CHOOSE i \in keep : new(i) = n
    IN [n \in 1..Cardinality(keep) |->
           [soup[old(n)] EXCEPT !.parent = new(@)]]

\* the page with tag n and everything below it removed
DeleteSubtree(soup, n) ==
    Without(soup, {n} \cup {j \in 1..Len(soup) : IsAncestor(soup, n, j)})

\* the page with tag n replaced by its children
Unwrap(soup, n) ==
    Without([j \in 1..Len(soup) |->
                IF soup[j].parent = n
                THEN [soup[j] EXCEPT !.parent = soup[n].parent]
                ELSE soup[j]],
            {n})

\* the page with the src attribute of tag n removed
DropSrc(soup, n) == [soup EXCEPT ![n].src = None]

Edits(soup) ==
    {DeleteSubtree(soup, n) : n \in 1..Len(soup)}
    \cup {Unwrap(soup, n) : n \in 1..Len(soup)}
    \cup {DropSrc(soup, n) : n \in 1..Len(soup)}

RECURSIVE Variants(_, _)
\* the pages at most k edits away from soup
Variants(soup, k) ==
    IF k = 0 THEN {soup}
    ELSE {soup} \cup UNION {Variants(e, k - 1) : e \in Edits(soup)}

Pages == Variants(BasePage, MaxEdits)

\* featurize_page_soup is not running
PS_Idle ==
    /\ ps_pc = "idle"
    /\ ps_soup = <<>>
    /\ ps_link = <<>>
    /\ ps_out = EmptyDict

PS_Init ==
    /\ ps_pc = "call"
    /\ ps_soup \in Pages
    /\ ps_link \in {Link1, Link2}
    /\ ps_out = EmptyDict

\* featurize_page_soup(ps_soup, ps_link) returns
PS_Return ==
    /\ ps_pc = "call"
    /\ ~PS_Raises(ps_soup, ps_link)
    /\ ps_out' = featurize_page_soup(ps_soup, ps_link)
    /\ ps_pc' = "returned"
    /\ UNCHANGED <<ps_soup, ps_link>>
    /\ UNCHANGED <<fe_vars, gl_vars, pl_vars>>

\* featurize_page_soup(ps_soup, ps_link) raises AttributeError
PS_Raise ==
    /\ ps_pc = "call"
    /\ PS_Raises(ps_soup, ps_link)
    /\ ps_pc' = "error"
    /\ UNCHANGED <<ps_soup, ps_link, ps_out>>
    /\ UNCHANGED <<fe_vars, gl_vars, pl_vars>>

-----------------------------------------------------------------------------
(* featurize and the pass of __main__ *)

\* article.download(html=soup); article.parse(), lines 105-107, raises on
\* HTML the parser cannot handle
ParseRaises(d) == ~d.body_soup.wellformed

\* lines 109-117: what newspaper extracted from the article's HTML
ArticleData(d) ==
    [_id |-> d._id,
     link |-> d.link,
     source |-> d.source,
     authors |-> d.body_soup.authors,
     body |-> d.body_soup.text,
     keywords |-> d.body_soup.meta_keywords,
     lang |-> d.body_soup.meta_lang,
     meta_desc |-> d.body_soup.meta_description,
     source_url |-> d.body_soup.source_url]

\* lines 119-120: data.update(featurize_page_soup(page_soup, link))
WithPageData(d) == featurize_page_soup(d.page_soup, d.link) @@ ArticleData(d)

\* featurize raises: the parser, or featurize_page_soup
FeaturizeRaises(d) == ParseRaises(d) \/ PS_Raises(d.page_soup, d.link)

\* featurize, lines 99-128
featurize(d) ==
    LET data == feature_engineering(WithPageData(d)) @@ WithPageData(d)
    IN Restrict(data, DOMAIN data \ {"authors", "meta_desc", "body"})

\* the filter of lines 207-213
Unpulled(d) ==
    d.source = "personnel-announcements-list" /\ "pulled" \notin DOMAIN d

RECURSIVE FindUnpulled(_, _)
\* db.prnewswire.find(...): the places, from i on and in the collection's
\* order, of the documents the filter accepts
FindUnpulled(coll, i) ==
    IF i > Len(coll) THEN <<>>
    ELSE (IF Unpulled(coll[i]) THEN <<i>> ELSE <<>>) \o FindUnpulled(coll, i + 1)

\* line 216
HasText(features) == "text" \in DOMAIN features

\* db.pr_realtime.insert raises DuplicateKeyError on an _id already there
InsertRaises(coll, rec) == \E i \in 1..Len(coll) : coll[i]._id = rec._id

\* db.pr_realtime.insert(doc_features), line 220
Insert(coll, rec) == Append(coll, rec)

\* update_one({'_id': id}, {'$set': {'pulled': 'yes'}}), lines 222-223
MarkPulled(coll, id) ==
    [i \in 1..Len(coll) |->
        IF coll[i]._id = id /\ \A j \in 1..(i - 1) : coll[j]._id # id
        THEN ("pulled" :> "yes") @@ coll[i]
        ELSE coll[i]]

\* get_labels on what the taggers returned
get_labels(title, pos_tpls, ner_tpls) ==
    get_ner(get_POS(BuildLabel(title), pos_tpls), ner_tpls)

\* get_labels raises KeyError: a tagger returned more tags than tokens
LabelsRaise(title, pos_tpls, ner_tpls) ==
    \/ TagRaises(BuildLabel(title), pos_tpls)
    \/ TagRaises(BuildLabel(title), ner_tpls)

-----------------------------------------------------------------------------
(* The scraped documents *)

Html(wellformed, authors, text, meta_description) ==
    [wellformed |-> wellformed, authors |-> authors, text |-> text,
     meta_description |-> meta_description, meta_keywords |-> <<>>,
     meta_lang |-> "en", source_url |-> "prnewswire.com"]

Acme == <<"A", "c", "m", "e">>
GoodBody == <<"N", "Y", " ">> \o Delim \o <<"A">>
GoodMeta == <<"N", "Y", ",", " ", "J", "a", "n", " ", "5">>
GoodHtml == Html(TRUE, <<Acme>>, GoodBody, GoodMeta)

\* what the scraper may have stored for one press release: the list it came
\* from, the article's HTML (by what the parser makes of it) and the
\* listing page
RawKinds ==
    { \* everything in place
      [source |-> "personnel-announcements-list", body_soup |-> GoodHtml,
       page_soup |-> BasePage],
      \* another list
      [source |-> "other", body_soup |-> GoodHtml, page_soup |-> BasePage],
      \* HTML the parser rejects
      [source |-> "personnel-announcements-list",
       body_soup |-> Html(FALSE, <<>>, <<>>, <<>>), page_soup |-> BasePage],
      \* a listing page without the article's headline link
      [source |-> "personnel-announcements-list", body_soup |-> GoodHtml,
       page_soup |-> DeleteSubtree(BasePage, 9)],
      \* a body that ends with the delimiter
      [source |-> "personnel-announcements-list",
       body_soup |-> Html(TRUE, <<Acme>>, <<"N", "Y", " ">> \o Delim, GoodMeta),
       page_soup |-> BasePage],
      \* a body without the delimiter
      [source |-> "personnel-announcements-list",
       body_soup |-> Html(TRUE, <<Acme>>, <<"N", "Y">>, GoodMeta),
       page_soup |-> BasePage],
      \* a listing page without the date
      [source |-> "personnel-announcements-list", body_soup |-> GoodHtml,
       page_soup |-> DeleteSubtree(BasePage, 4)],
      \* no author
      [source |-> "personnel-announcements-list",
       body_soup |-> Html(TRUE, <<>>, GoodBody, GoodMeta),
       page_soup |-> BasePage],
      \* a description that starts with the month
      [source |-> "personnel-announcements-list",
       body_soup |-> Html(TRUE, <<Acme>>, GoodBody, <<"J", "a", "n", " ", "5">>),
       page_soup |-> BasePage] }

\* the headline of the i-th document, its _id: i words
HeadlineOf(i) ==
    <<"J", "o">> \o Concat([j \in 1..(i - 1) |-> <<" ", "V", "P">>])

\* the tags the taggers give in the pass
PassPOSTags == {"NNP"}
PassNERTags == {"O"}

DocIds == {HeadlineOf(i) : i \in 1..NumDocs}

\* the pass is not running
PL_Idle ==
    /\ prnewswire = <<>>
    /\ pr_realtime = <<>>
    /\ cursor = <<>>
    /\ doc = EmptyDict
    /\ doc_features = EmptyDict
    /\ count = 0
    /\ tot = 0
    /\ pc = "idle"
    /\ run = "none"
    /\ snapshot = <<>>
    /\ visited = <<>>
    /\ marks = <<>>
    /\ inserted = <<>>
    /\ engineered = <<>>

\* no history yet in this run
NoMarks == [id \in DocIds |-> 0]

PL_Init ==
    /\ \E kinds \in [1..NumDocs -> RawKinds] :
          prnewswire = [i \in 1..NumDocs |->
                           [_id |-> HeadlineOf(i), link |-> Link1,
                            source |-> kinds[i].source,
                            body_soup |-> kinds[i].body_soup,
                            page_soup |-> kinds[i].page_soup]]
    /\ pr_realtime = <<>>
    /\ cursor = <<>>
    /\ doc = EmptyDict
    /\ doc_features = EmptyDict
    /\ count = 0
    /\ tot = 0
    /\ pc = "query"
    /\ run = "first"
    /\ snapshot = <<>>
    /\ visited = <<>>
    /\ marks = NoMarks
    /\ inserted = <<>>
    /\ engineered = [id \in DocIds |-> <<>>]

others == <<fe_vars, gl_vars, ps_vars>>

\* lines 206-213: the snapshot cursor and the count
Query ==
    /\ pc = "query"
    /\ cursor' = FindUnpulled(prnewswire, 1)
    /\ snapshot' = [i \in 1..Len(cursor') |-> prnewswire[cursor'[i]]._id]
    /\ count' = 1
    /\ tot' = Len(cursor')
    /\ pc' = "for"
    /\ UNCHANGED <<prnewswire, pr_realtime, doc, doc_features, run, visited,
                   marks, inserted, engineered, others>>

\* line 214: the cursor yields the next document of the snapshot
NextDoc ==
    /\ pc = "for"
    /\ cursor # <<>>
    /\ doc' = prnewswire[Head(cursor)]
    /\ cursor' = Tail(cursor)
    /\ visited' = Append(visited, doc'._id)
    /\ pc' = "featurize"
    /\ UNCHANGED <<prnewswire, pr_realtime, doc_features, count, tot, run,
                   snapshot, marks, inserted, engineered, others>>

\* line 215: featurize(doc) returns, or raises and ends the program
Featurize ==
    /\ pc = "featurize"
    /\ IF FeaturizeRaises(doc)
       THEN /\ pc' = "error"
            /\ UNCHANGED <<doc_features, engineered>>
       ELSE /\ pc' = "check"
            /\ doc_features' = featurize(doc)
            /\ engineered' =
                 [engineered EXCEPT ![doc._id] =
                    <<[text |-> FE_text(WithPageData(doc)),
                       location |-> FE_location(WithPageData(doc)),
                       org |-> FE_org(WithPageData(doc))]>>]
    /\ UNCHANGED <<prnewswire, pr_realtime, cursor, doc, count, tot, run,
                   snapshot, visited, marks, inserted, others>>

\* line 216, 'text' not in doc_features: nothing to label or insert
Discard ==
    /\ pc = "check"
    /\ ~HasText(doc_features)
    /\ pc' = "mark"
    /\ UNCHANGED <<prnewswire, pr_realtime, cursor, doc, doc_features, count,
                   tot, run, snapshot, visited, marks, inserted, engineered,
                   others>>

\* lines 216-219: the taggers answer; get_labels returns, or raises and ends
\* the program
Label ==
    /\ pc = "check"
    /\ HasText(doc_features)
    /\ \E pos_tpls \in TagSeqs(PassPOSTags, Len(Tokens(doc_features._id))),
          ner_tpls \in TagSeqs(PassNERTags, Len(Tokens(doc_features._id))) :
        IF LabelsRaise(doc_features._id, pos_tpls, ner_tpls)
        THEN /\ pc' = "error"
             /\ UNCHANGED doc_features
        ELSE /\ pc' = "insert"
             /\ doc_features' =
                  ("label" :> get_labels(doc_features._id, pos_tpls, ner_tpls))
                  @@ doc_features
    /\ UNCHANGED <<prnewswire, pr_realtime, cursor, doc, count, tot, run,
                   snapshot, visited, marks, inserted, engineered, others>>

\* InsertFeatures gone wrong: the document is marked where the record
\* should have been inserted
InsertFeatures_MarkInstead ==
    /\ pc = "insert"
    /\ prnewswire' = MarkPulled(prnewswire, doc._id)
    /\ marks' = [marks EXCEPT ![doc._id] = @ + 1]
    /\ pc' = "mark"
    /\ UNCHANGED <<pr_realtime, cursor, doc, doc_features, count, tot, run,
                   snapshot, visited, inserted, engineered, others>>

\* line 220
InsertFeatures ==
    /\ pc = "insert"
    /\ IF InsertRaises(pr_realtime, doc_features)
       THEN /\ pc' = "error"
            /\ UNCHANGED <<pr_realtime, inserted>>
       ELSE /\ pc' = "mark"
            /\ pr_realtime' = Insert(pr_realtime, doc_features)
            /\ inserted' = Append(inserted, doc_features._id)
    /\ UNCHANGED <<prnewswire, cursor, doc, doc_features, count, tot, run,
                   snapshot, visited, marks, engineered, others>>

\* lines 221-224
Mark ==
    /\ pc = "mark"
    /\ prnewswire' = MarkPulled(prnewswire, doc._id)
    /\ marks' = [marks EXCEPT ![doc._id] = @ + 1]
    /\ count' = count + 1
    /\ pc' = "for"
    /\ UNCHANGED <<pr_realtime, cursor, doc, doc_features, tot, run, snapshot,
                   visited, inserted, engineered, others>>

\* line 225: the cursor is exhausted
Close ==
    /\ pc = "for"
    /\ cursor = <<>>
    /\ pc' = "done"
    /\ UNCHANGED <<prnewswire, pr_realtime, cursor, doc, doc_features, count,
                   tot, run, snapshot, visited, marks, inserted, engineered,
                   others>>

\* the program is started again, after it ended or died; the collections
\* are as the first run left them
RunAgain ==
    /\ pc \in {"done", "error"}
    /\ run = "first"
    /\ run' = "second"
    /\ pc' = "query"
    /\ cursor' = <<>>
    /\ doc' = EmptyDict
    /\ doc_features' = EmptyDict
    /\ count' = 0
    /\ tot' = 0
    /\ snapshot' = <<>>
    /\ visited' = <<>>
    /\ marks' = NoMarks
    /\ inserted' = <<>>
    /\ UNCHANGED <<prnewswire, pr_realtime, engineered, others>>

-----------------------------------------------------------------------------
(* Properties of feature_engineering *)

\* t is s without its leading and trailing whitespace, said without Strip
IsTrimOf(t, s) ==
    /\ t = <<>> \/ (t[1] \notin Whitespace /\ t[Len(t)] \notin Whitespace)
    /\ \E a \in 0..Len(s) :
        /\ a + Len(t) <= Len(s)
        /\ SubSeq(s, a + 1, a + Len(t)) = t
        /\ \A i \in (1..a) \cup ((a + Len(t) + 1)..Len(s)) : s[i] \in Whitespace

\* sub occurs in s at 0-based index i and nowhere before
FirstAt(s, sub, i) ==
    /\ i \in 0..(Len(s) - Len(sub))
    /\ SubSeq(s, i + 1, i + Len(sub)) = sub
    /\ \A j \in 0..(i - 1) : SubSeq(s, j + 1, j + Len(sub)) # sub

\* s holds sub somewhere
Contains(s, sub) == \E i \in 0..(Len(s) - Len(sub)) : FirstAt(s, sub, i)

\* C8: after feature_engineering, when body holds '/ -- ', text is the
\* trimmed rest of body after the first '/ -- '; when body holds none, or
\* there is no body, text is None.
C8_TextAfterFirstDelimiter ==
    fe_pc = "returned" =>
        IF "body" \in DOMAIN fe_data /\ Contains(fe_data.body, Delim)
        THEN \E i \in 0..Len(fe_data.body) :
                /\ FirstAt(fe_data.body, Delim, i)
                /\ IsTrimOf(fe_text,
                            SubSeq(fe_data.body, i + Len(Delim) + 1,
                                   Len(fe_data.body)))
        ELSE fe_text = None

\* a body with two delimiters was cut at the first: the second is in text
C8_Witness ==
    /\ fe_pc = "returned"
    /\ "body" \in DOMAIN fe_data
    /\ Cardinality(Occurrences(fe_data.body, Delim)) >= 2
    /\ fe_text # None
    /\ Contains(fe_text, Delim)

\* the first three characters of date (all of it when it is shorter)
MonthOf(date) == [i \in 1..(IF Len(date) < 3 THEN Len(date) ELSE 3) |-> date[i]]

\* location is what the claim C9 gives for this date and description
LocationBeforeMonth(location, date, meta_desc) ==
    \E i \in 0..Len(meta_desc) :
        /\ FirstAt(meta_desc, MonthOf(date), i)
        /\ IsTrimOf(location, SubSeq(meta_desc, 1, i))

\* C9 as stated: whenever meta_desc holds the first three characters of
\* date (the empty date included, which every description holds), location
\* is the trimmed part of meta_desc before them; otherwise, and when date
\* or meta_desc is missing, location is None.
C9_Original ==
    fe_pc = "returned" =>
        IF {"date", "meta_desc"} \subseteq DOMAIN fe_data
           /\ Contains(fe_data.meta_desc, MonthOf(fe_data.date))
        THEN LocationBeforeMonth(fe_location, fe_data.date, fe_data.meta_desc)
        ELSE fe_location = None

\* C9, amended: when date is not empty and meta_desc holds its first three
\* characters, location is the trimmed part of meta_desc before their first
\* occurrence; otherwise (the empty date included), and when date or
\* meta_desc is missing, location is None.
C9_LocationBeforeMonth ==
    fe_pc = "returned" =>
        IF {"date", "meta_desc"} \subseteq DOMAIN fe_data
           /\ fe_data.date # <<>>
           /\ Contains(fe_data.meta_desc, MonthOf(fe_data.date))
        THEN LocationBeforeMonth(fe_location, fe_data.date, fe_data.meta_desc)
        ELSE fe_location = None

\* a date longer than three characters whose month occurs twice in the
\* description, and a non-empty location before the first
C9_Witness ==
    /\ fe_pc = "returned"
    /\ {"date", "meta_desc"} \subseteq DOMAIN fe_data
    /\ Len(fe_data.date) > 3
    /\ Cardinality(Occurrences(fe_data.meta_desc, MonthOf(fe_data.date))) >= 2
    /\ fe_location # None
    /\ fe_location # <<>>

-----------------------------------------------------------------------------
(* Properties of featurize_page_soup *)

\* C5: featurize_page_soup never aborts: whatever the listing page and the
\* link, the call returns a dict with the four fields date, time, summary
\* and img, each a string (empty when its lookup failed).
C5_NeverAborts ==
    /\ ps_pc # "error"
    /\ ps_pc = "returned" =>
        /\ DOMAIN ps_out = {"date", "time", "summary", "img"}
        /\ \A k \in DOMAIN ps_out : ps_out[k] # RaisedStr

-----------------------------------------------------------------------------
(* Properties of the pass *)

\* the result store holds a record of this document
InStore(id) == \E i \in 1..Len(pr_realtime) : pr_realtime[i]._id = id

\* the source document carries the processed marker
Pulled(id) ==
    \E i \in 1..Len(prnewswire) :
        prnewswire[i]._id = id /\ "pulled" \in DOMAIN prnewswire[i]

\* feature_engineering has derived text, location and org for the document
Engineered(id) == Len(engineered[id]) = 1

\* none of the three derived fields is None
AllNonNull(id) ==
    /\ Engineered(id)
    /\ engineered[id][1].text # None
    /\ engineered[id][1].location # None
    /\ engineered[id][1].org # None

\* none of the three derived fields is None or the empty string
AllNonEmpty(id) ==
    /\ AllNonNull(id)
    /\ engineered[id][1].text # <<>>
    /\ engineered[id][1].location # <<>>
    /\ engineered[id][1].org # <<>>

\* the pass is over: the program ended, or died on an exception
PassEnded == pc \in {"done", "error"}

\* the documents of a sequence of ids
Range(seq) == {seq[i] : i \in 1..Len(seq)}

\* C1 as stated: once the loop is done with a document it visited, the
\* result store holds a record of it exactly when text, location and org
\* are all non-null (the empty string counting as non-null).
C1_Original ==
    \A id \in DocIds :
        Pulled(id) => (InStore(id) <=> AllNonNull(id))

\* C1, amended: for a document whose featurizing and labelling raised no
\* error (the loop went on to mark it), the result store holds a record
\* exactly when text, location and org are all non-null and non-empty; a
\* document not visited, or whose featurizing or labelling raised, has no
\* record (one not yet marked has a record only while the loop stands
\* between its insert and its mark).
C1_InsertedIffAllNonEmpty ==
    \A id \in DocIds :
        /\ Pulled(id) => (InStore(id) <=> AllNonEmpty(id))
        /\ (~Pulled(id) /\ InStore(id)) => (pc = "mark" /\ doc._id = id)

\* a document whose text is the empty string, not None, was visited and
\* marked, and no record of it was inserted
C1_Witness ==
    \E id \in DocIds :
        /\ Pulled(id)
        /\ AllNonNull(id)
        /\ engineered[id][1].text = <<>>
        /\ ~InStore(id)
        /\ \E other \in DocIds : Pulled(other) /\ InStore(other)

\* C2: in one pass the processed marker is set exactly once for every
\* document the loop visits: never twice, and when the pass is over no
\* visited document is left unmarked.
C2_MarkedExactlyOnce ==
    /\ \A id \in DocIds : marks[id] <= 1
    /\ PassEnded => \A id \in Range(visited) : marks[id] = 1

\* C3: the second run of the program finds nothing to do: its query returns
\* no document, it visits and inserts nothing, and the result store holds
\* at most one record per document id.
C3_SecondRunVisitsNothing ==
    /\ run = "second" =>
        /\ snapshot = <<>>
        /\ visited = <<>>
        /\ inserted = <<>>
    /\ \A i, j \in 1..Len(pr_realtime) :
        pr_realtime[i]._id = pr_realtime[j]._id => i = j

\* C4: a failure on one document does not stop the pass: when the pass is
\* over, every document of the query snapshot has been visited, and every
\* one but those whose featurizing or labelling failed has been marked.
C4_FailureIsPerDocument ==
    PassEnded =>
        \A i \in 1..Len(snapshot) :
            /\ snapshot[i] \in Range(visited)
            /\ (pc = "error" /\ doc._id = snapshot[i]) \/ marks[snapshot[i]] = 1

\* C10: in every state of a pass, also one where the program died, a
\* document whose featurization was complete carries the processed marker
\* only if its record, label map included, is in the result store.
C10_MarkedOnlyAfterInsert ==
    \A id \in DocIds :
        (AllNonEmpty(id) /\ Pulled(id)) =>
            \E i \in 1..Len(pr_realtime) :
                /\ pr_realtime[i]._id = id
                /\ "label" \in DOMAIN pr_realtime[i]
                /\ "text" \in DOMAIN pr_realtime[i]

\* the program died on a later document after a complete document was
\* inserted and marked
C10_Witness ==
    /\ pc = "error"
    /\ \E id \in DocIds :
        /\ AllNonEmpty(id)
        /\ Pulled(id)
        /\ InStore(id)
        /\ doc._id # id

-----------------------------------------------------------------------------
(* Properties of get_labels *)

RECURSIVE DecimalValue(_)
\* the number a string of digits writes; -1 when s is no such string
DecimalValue(s) ==
    LET last == IF s = <<>> THEN {}
                ELSE {d \in 0..9 : Digits[d + 1] = s[Len(s)]}
        d0 == CHOOSE d \in last : TRUE
        rest == DecimalValue(SubSeq(s, 1, Len(s) - 1))
    IN IF last = {} THEN -1
       ELSE IF Len(s) = 1 THEN d0
       ELSE IF rest <= 0 THEN -1
       ELSE 10 * rest + d0

\* the number of whitespace-delimited tokens of the headline
NumTokens == Len(Tokens(gl_title))

\* C7: when both taggers return one tag per token, get_labels returns a
\* dict whose keys are exactly "0".."n-1", each once, entry i holding the
\* i-th token, word_pct = i/n and the i-th POS and NER tags.
C7_LabelMapShape ==
    (gl_pc = "returned" /\ Len(gl_pos_tpls) = NumTokens
                        /\ Len(gl_ner_tpls) = NumTokens) =>
        /\ Cardinality(DOMAIN gl_label) = NumTokens
        /\ \A k \in DOMAIN gl_label : DecimalValue(k) \in 0..(NumTokens - 1)
        /\ \A i \in 0..(NumTokens - 1) :
             \E k \in DOMAIN gl_label :
                /\ DecimalValue(k) = i
                /\ gl_label[k].word = Tokens(gl_title)[i + 1]
                /\ gl_label[k].word_pct[2] > 0
                /\ gl_label[k].word_pct[1] * NumTokens
                       = i * gl_label[k].word_pct[2]
                /\ gl_label[k].POS = gl_pos_tpls[i + 1]
                /\ gl_label[k].ner = gl_ner_tpls[i + 1]

\* a headline of three or more tokens was labelled by well-behaved taggers
C7_Witness ==
    /\ gl_pc = "returned"
    /\ NumTokens >= 3
    /\ Len(gl_pos_tpls) = NumTokens
    /\ Len(gl_ner_tpls) = NumTokens
    /\ Cardinality(DOMAIN gl_label) >= 3

\* C6: a tagger answer whose length is not the token count ends get_labels
\* in an error: when get_labels returns, both answers had one tag per token
\* and the returned dict has a POS and a ner tag at every position.
C6_MismatchIsSurfaced ==
    gl_pc = "returned" =>
        /\ Len(gl_pos_tpls) = NumTokens
        /\ Len(gl_ner_tpls) = NumTokens
        /\ \A k \in DOMAIN gl_label : {"POS", "ner"} \subseteq DOMAIN gl_label[k]

-----------------------------------------------------------------------------
(* Specifications *)

Init == PL_Init /\ FE_Idle /\ GL_Idle /\ PS_Idle

Next ==
    \/ Query
    \/ NextDoc
    \/ Featurize
    \/ Discard
    \/ Label
    \/ InsertFeatures
    \/ Mark
    \/ Close
    \/ RunAgain

Spec == Init /\ [][Next]_vars

InitFE == FE_Init /\ GL_Idle /\ PS_Idle /\ PL_Idle

SpecFE == InitFE /\ [][FE_Call]_vars

PS_Next == PS_Return \/ PS_Raise

InitPage == PS_Init /\ FE_Idle /\ GL_Idle /\ PL_Idle

SpecPage == InitPage /\ [][PS_Next]_vars

GL_Next == GL_Build \/ GL_get_POS \/ GL_get_ner

InitLabels == GL_Init /\ FE_Idle /\ PS_Idle /\ PL_Idle

SpecLabels == InitLabels /\ [][GL_Next]_vars

====
